---- MODULE Spec2Model ----
\* Model of backend/services/llm_service.py: the diagram repair / validation
\* functions, the response parser, the prompt budgeter and the bounded retry
\* loop of analyze_repo_with_chat.
\*
\* Text is a sequence of one-character strings.  An optional value (Python
\* None or a value) is a sequence of length 0 or 1.
EXTENDS Integers, Sequences, FiniteSets, TLC

\* ------------------------------------------------------------------ text

None == <<>>
Some(x) == <<x>>

NL == "\n"

IsSpace(c) == c \in {" ", "\n", "\t"}

WordChars ==
  {"a","b","c","d","e","f","g","h","i","j","k","l","m","n","o","p","q","r",
   "s","t","u","v","w","x","y","z",
   "A","B","C","D","E","F","G","H","I","J","K","L","M","N","O","P","Q","R",
   "S","T","U","V","W","X","Y","Z",
   "0","1","2","3","4","5","6","7","8","9","_"}

\* regex class \w
IsWord(c) == c \in WordChars

UpperToLower ==
  [c \in {"A","B","C","D","E","F","G","H","I","J","K","L","M","N","O","P","Q",
          "R","S","T","U","V","W","X","Y","Z"} |->
     CASE c = "A" -> "a" [] c = "B" -> "b" [] c = "C" -> "c" [] c = "D" -> "d"
       [] c = "E" -> "e" [] c = "F" -> "f" [] c = "G" -> "g" [] c = "H" -> "h"
       [] c = "I" -> "i" [] c = "J" -> "j" [] c = "K" -> "k" [] c = "L" -> "l"
       [] c = "M" -> "m" [] c = "N" -> "n" [] c = "O" -> "o" [] c = "P" -> "p"
       [] c = "Q" -> "q" [] c = "R" -> "r" [] c = "S" -> "s" [] c = "T" -> "t"
       [] c = "U" -> "u" [] c = "V" -> "v" [] c = "W" -> "w" [] c = "X" -> "x"
       [] c = "Y" -> "y" [] c = "Z" -> "z"]

\* str.lower()
Lower(s) ==
  [i \in 1..Len(s) |-> IF s[i] \in DOMAIN UpperToLower THEN UpperToLower[s[i]] ELSE s[i]]

\* s[:n]
Take(s, n) == SubSeq(s, 1, IF n < Len(s) THEN n ELSE Len(s))

\* str.startswith
StartsWith(s, p) == Len(p) <= Len(s) /\ SubSeq(s, 1, Len(p)) = p

\* 1-based position of the first occurrence of sub in s, 0 when absent
Find(s, sub) ==
  LET hits == {i \in 1..(Len(s) - Len(sub) + 1) : SubSeq(s, i, i + Len(sub) - 1) = sub}
  IN IF hits = {} THEN 0 ELSE CHOOSE i \in hits : \A j \in hits : i <= j

\* `sub in s`
Contains(s, sub) == Find(s, sub) # 0

\* str.count of a single character
Count(s, c) == Cardinality({i \in 1..Len(s) : s[i] = c})

\* str.strip()
Strip(s) ==
  LET keep == {i \in 1..Len(s) : ~IsSpace(s[i])}
  IN IF keep = {} THEN <<>>
     ELSE SubSeq(s, CHOOSE i \in keep : \A j \in keep : i <= j,
                    CHOOSE i \in keep : \A j \in keep : j <= i)

RECURSIVE Split(_)
\* str.split('\n')
Split(s) ==
  LET i == Find(s, <<NL>>)
  IN IF i = 0 THEN <<s>>
     ELSE <<SubSeq(s, 1, i - 1)>> \o Split(SubSeq(s, i + 1, Len(s)))

RECURSIVE Join(_)
\* '\n'.join(lines)
Join(lines) ==
  IF lines = <<>> THEN <<>>
  ELSE IF Len(lines) = 1 THEN lines[1]
  ELSE lines[1] \o <<NL>> \o Join(Tail(lines))

RECURSIVE Replace(_, _, _)
\* str.replace(old, new): every non-overlapping occurrence, left to right
Replace(s, old, new) ==
  LET i == Find(s, old)
  IN IF i = 0 THEN s
     ELSE SubSeq(s, 1, i - 1) \o new \o Replace(SubSeq(s, i + Len(old), Len(s)), old, new)

\* number of consecutive copies of c at the front of s
RECURSIVE RunLen(_, _)
RunLen(s, c) == IF s # <<>> /\ Head(s) = c THEN 1 + RunLen(Tail(s), c) ELSE 0

\* re.sub(c{4,}>, new, s): every run of four or more c followed by '>'
RECURSIVE SubRunArrow(_, _, _)
SubRunArrow(s, c, new) ==
  IF s = <<>> THEN <<>>
  ELSE LET n == RunLen(s, c)
       IN IF n >= 4 /\ Len(s) > n /\ s[n + 1] = ">"
          THEN new \o SubRunArrow(SubSeq(s, n + 2, Len(s)), c, new)
          ELSE <<Head(s)>> \o SubRunArrow(Tail(s), c, new)

\* re.sub(r';+', ';', s)
RECURSIVE SubSemis(_)
SubSemis(s) ==
  IF s = <<>> THEN <<>>
  ELSE LET n == RunLen(s, ";")
       IN IF n >= 1 THEN <<";">> \o SubSemis(SubSeq(s, n + 1, Len(s)))
          ELSE <<Head(s)>> \o SubSemis(Tail(s))

\* re.sub(r'(\w+)\s+(\w+)(?=\s*$)', r'\1_\2', s): the last word of s, when only
\* whitespace follows it and a word precedes it across whitespace only, is
\* joined to that word by one underscore; the leftmost match starts at the
\* beginning of the preceding run of word characters
SubJoinLastWords(s) ==
  LET nonsp == {i \in 1..Len(s) : ~IsSpace(s[i])}
  IN IF nonsp = {} THEN s
     ELSE
       LET e2 == CHOOSE i \in nonsp : \A j \in nonsp : j <= i
           nw2 == {i \in 1..e2 : ~IsWord(s[i])}
           b2 == IF nw2 = {} THEN 1 ELSE (CHOOSE i \in nw2 : \A j \in nw2 : j <= i) + 1
           ns1 == {i \in 1..(b2 - 1) : ~IsSpace(s[i])}
           e1 == IF ns1 = {} THEN 0 ELSE CHOOSE i \in ns1 : \A j \in ns1 : j <= i
       IN IF b2 > e2 \/ e1 = 0 \/ e1 = b2 - 1 \/ ~IsWord(s[e1]) THEN s
          ELSE SubSeq(s, 1, e1) \o <<"_">> \o SubSeq(s, b2, Len(s))

\* ------------------------------------------------------------- literals

DIAGRAM_START == <<"[","D","I","A","G","R","A","M","_","S","T","A","R","T","]">>
DIAGRAM_END == <<"[","D","I","A","G","R","A","M","_","E","N","D","]">>
\* the backquote character
BQ == "BACKQUOTE"

FenceMermaid == <<BQ,BQ,BQ,"m","e","r","m","a","i","d">>
Fence == <<BQ,BQ,BQ>>
KwSubgraph == <<"s","u","b","g","r","a","p","h">>
KwEnd == <<"e","n","d">>
KwComment == <<"%","%">>
ArrowSolid == <<"-","-",">">>
ArrowDashed == <<"-",".",".","-",">">>
ArrowThick == <<"=","=","=",">">>
ArrowDots == <<".",".",".",".",">">>

\* validate_mermaid_syntax.valid_types
valid_types ==
  { <<"s","e","q","u","e","n","c","e","D","i","a","g","r","a","m">>,
    <<"g","r","a","p","h">>,
    <<"f","l","o","w","c","h","a","r","t">>,
    <<"c","l","a","s","s","D","i","a","g","r","a","m">>,
    <<"e","r","D","i","a","g","r","a","m">>,
    <<"s","t","a","t","e","D","i","a","g","r","a","m">>,
    <<"j","o","u","r","n","e","y">>,
    <<"g","a","n","t","t">>,
    <<"m","i","n","d","m","a","p">>,
    <<"p","i","e">>,
    <<"g","i","t","G","r","a","p","h">> }

\* ------------------------------------------------------ SyntaxRepairer

\* the body of the for loop of fix_mermaid_syntax, for one line
FixLine(raw) ==
  LET line == Strip(raw)
  IN IF line = <<>> \/ StartsWith(line, KwComment) THEN line
     ELSE IF StartsWith(line, KwSubgraph) \/ line = KwEnd THEN line
     ELSE
       LET l1 == SubRunArrow(line, "-", ArrowSolid)
           l2 == SubRunArrow(l1, ".", ArrowDashed)
           l3 == Replace(l2, ArrowThick, ArrowSolid)
           l4 == Replace(l3, ArrowDots, ArrowDashed)
           b == Find(l4, <<"[">>)
           l5 == IF (Contains(l4, <<"[">>) \/ Contains(l4, <<"(">>)
                     \/ Contains(l4, ArrowSolid) \/ Contains(l4, ArrowDashed))
                    /\ b # 0
                 THEN SubJoinLastWords(SubSeq(l4, 1, b - 1)) \o SubSeq(l4, b, Len(l4))
                 ELSE l4
       IN SubSemis(l5)

\* the leading code-fence removal of fix_mermaid_syntax
StripFence(code) ==
  IF StartsWith(code, FenceMermaid)
  THEN Strip(Replace(Replace(code, FenceMermaid, <<>>), Fence, <<>>))
  ELSE IF StartsWith(code, Fence) THEN Strip(Replace(code, Fence, <<>>))
  ELSE code

fix_mermaid_syntax(mermaid_code) ==
  LET code == StripFence(Strip(mermaid_code))
      lines == Split(code)
  IN Join([i \in 1..Len(lines) |-> FixLine(lines[i])])

\* ----------------------------------------------------- SyntaxValidator

\* the per-line checks of validate_mermaid_syntax; i is the enumerate index
LineErrors(raw, i) ==
  LET line == Strip(raw)
  IN IF line = <<>> \/ StartsWith(line, KwComment) THEN <<>>
     ELSE IF StartsWith(line, KwSubgraph) \/ line = KwEnd THEN <<>>
     ELSE (IF Count(line, "[") # Count(line, "]") THEN <<[line |-> i, what |-> "brackets"]>> ELSE <<>>)
       \o (IF Count(line, "(") # Count(line, ")") THEN <<[line |-> i, what |-> "parentheses"]>> ELSE <<>>)
       \o (IF Count(line, "{") # Count(line, "}") THEN <<[line |-> i, what |-> "braces"]>> ELSE <<>>)

RECURSIVE SyntaxErrorsFrom(_, _)
SyntaxErrorsFrom(lines, i) ==
  IF i > Len(lines) THEN <<>>
  ELSE LineErrors(lines[i], i - 1) \o SyntaxErrorsFrom(lines, i + 1)

\* validate_mermaid_syntax: [valid, errors]
validate_mermaid_syntax(mermaid_code) ==
  LET lines == Split(Strip(mermaid_code))
      first_line == Strip(lines[1])
  IN IF ~(\E t \in valid_types : StartsWith(first_line, t))
     THEN [valid |-> FALSE, errors |-> <<[line |-> 0, what |-> "type"]>>]
     ELSE LET errors == SyntaxErrorsFrom(lines, 2)
          IN [valid |-> errors = <<>>, errors |-> errors]

\* ----------------------------------------------- CompletenessValidator

\* validate_diagram_completeness: the number of node lines
NodeCount(mermaid_code) ==
  LET lines == Split(mermaid_code)
  IN Cardinality({i \in 1..Len(lines) :
        /\ Contains(lines[i], <<"[">>)
        /\ Contains(lines[i], <<"]">>)
        /\ ~StartsWith(Strip(lines[i]), KwComment)})

\* mutant: the tier boundaries taken inclusively
MinNodesForInclusive(file_count) ==
  IF file_count <= 20 THEN 15 ELSE IF file_count <= 50 THEN 25 ELSE 35

\* validate_diagram_completeness: the tier table
MinNodesFor(file_count) ==
  IF file_count < 20 THEN 15 ELSE IF file_count < 50 THEN 25 ELSE 35

\* validate_diagram_completeness(mermaid_code, repo_data), file_count being
\* the number of file_contents entries: [valid, issues]
validate_diagram_completeness(mermaid_code, file_count) ==
  LET issues ==
        (IF NodeCount(mermaid_code) < MinNodesFor(file_count) THEN <<"too_simple">> ELSE <<>>)
        \o (IF ~Contains(Lower(mermaid_code), KwSubgraph) /\ file_count > 10
            THEN <<"missing_organization">> ELSE <<>>)
  IN [valid |-> issues = <<>>, issues |-> issues]

\* ------------------------------------------------------ ResponseParser

detect_diagram_type(mermaid_code) ==
  LET code_lower == Strip(Lower(mermaid_code))
  IN IF StartsWith(code_lower, <<"s","e","q","u","e","n","c","e","d","i","a","g","r","a","m">>)
     THEN "sequence"
     ELSE IF StartsWith(code_lower, <<"f","l","o","w","c","h","a","r","t">>)
             \/ StartsWith(code_lower, <<"g","r","a","p","h">>)
     THEN "flowchart"
     ELSE IF StartsWith(code_lower, <<"c","l","a","s","s","d","i","a","g","r","a","m">>)
     THEN "class"
     ELSE IF StartsWith(code_lower, <<"e","r","d","i","a","g","r","a","m">>)
     THEN "database"
     ELSE IF StartsWith(code_lower, <<"s","t","a","t","e","d","i","a","g","r","a","m">>)
     THEN "state"
     ELSE "custom"

\* clean_mermaid_code: the validation only prints
clean_mermaid_code(mermaid_code) == fix_mermaid_syntax(mermaid_code)

\* extract_diagram_from_response, the assignments of the try block: the
\* diagram is cleaned, its type detected, the answer cut at the start marker
ParsedDiagram(ans, code) ==
  [answer |-> ans,
   mermaid_code |-> Some(code),
   diagram_type |-> Some(detect_diagram_type(code))]

\* extract_diagram_from_response with both markers present, s and e their
\* 1-based positions: raw_code is answer[start_idx:end_idx], which is empty
\* when end_idx <= start_idx
ExtractBetween(answer, s, e) ==
  ParsedDiagram(Strip(SubSeq(answer, 1, s - 1)),
                clean_mermaid_code(Strip(SubSeq(answer, s + Len(DIAGRAM_START), e - 1))))

\* extract_diagram_from_response after `answer = response_text.strip()`
ExtractFrom(answer) ==
  IF Contains(answer, DIAGRAM_START) /\ Contains(answer, DIAGRAM_END)
  THEN ExtractBetween(answer, Find(answer, DIAGRAM_START), Find(answer, DIAGRAM_END))
  ELSE [answer |-> answer, mermaid_code |-> None, diagram_type |-> None]

\* extract_diagram_from_response: [answer, mermaid_code, diagram_type];
\* mermaid_code and diagram_type are optional values
extract_diagram_from_response(response_text) == ExtractFrom(Strip(response_text))

\* ------------------------------------------------------ PromptBudgeter

MAX_CONTEXT_CHARS == 480000
MAX_FILE_CONTENTS_CHARS == 300000
MAX_FILES_IN_PROMPT == 40
\* the arguments of the degraded rebuild
REDUCED_MAX_CHARS == 80000
REDUCED_MAX_FILES == 15

priority_purposes == {"api", "service", "data_model", "middleware", "configuration"}

\* number of decimal digits of n, the length of str(n)
RECURSIVE Digits(_)
Digits(n) == IF n < 10 THEN 1 ELSE 1 + Digits(n \div 10)

\* length of the marker build_trimmed_file_contents appends when it cuts:
\* "\n\n... [TRUNCATED: showing {max_files}/{total_files} files to stay within token limit]"
TruncatedMarkerLen(max_files, total_files) == 61 + Digits(max_files) + Digits(total_files)

\* length of "(no files)"
NoFilesLen == 10

\* the positions of file_contents, in order, whose purpose is (not) a priority one
RECURSIVE Partition(_, _, _)
Partition(file_contents, i, wanted) ==
  IF i > Len(file_contents) THEN <<>>
  ELSE (IF (file_contents[i].purpose \in priority_purposes) = wanted THEN <<i>> ELSE <<>>)
       \o Partition(file_contents, i + 1, wanted)

\* mutant: the slots are filled in encounter order, priority or not
SelectTrimmedNoPriority(file_contents, max_files) ==
  Take([i \in 1..Len(file_contents) |-> i], max_files)

\* build_trimmed_file_contents: the keys of `trimmed`, in dict order
SelectTrimmed(file_contents, max_files) ==
  LET priority == Partition(file_contents, 1, TRUE)
      others == Partition(file_contents, 1, FALSE)
      trimmed == Take(priority, max_files)
      remaining_slots == max_files - Len(trimmed)
  IN IF remaining_slots > 0 THEN trimmed \o Take(others, remaining_slots) ELSE trimmed

\* github_service.format_file_contents(trimmed, max_files): the length of the
\* rendered text, every selected file rendered in full
RECURSIVE FormatFileContentsLen(_, _)
FormatFileContentsLen(file_contents, selected) ==
  IF selected = <<>> THEN 0
  ELSE file_contents[Head(selected)].size + FormatFileContentsLen(file_contents, Tail(selected))

\* build_trimmed_file_contents: the files shown and the length of the text
build_trimmed_file_contents(file_contents, max_chars, max_files) ==
  IF Len(file_contents) = 0
  THEN [selected |-> <<>>, len |-> NoFilesLen, truncated |-> FALSE]
  ELSE LET selected == SelectTrimmed(file_contents, max_files)
           formatted == FormatFileContentsLen(file_contents, selected)
       IN IF formatted > max_chars
          THEN [selected |-> selected,
                len |-> max_chars + TruncatedMarkerLen(max_files, Len(file_contents)),
                truncated |-> TRUE]
          ELSE [selected |-> selected, len |-> formatted, truncated |-> FALSE]

\* A prompt is a sequence of sections [name, len].  The literal "FILE CONTENTS"
\* opens the section "fc_header"; the repository's own texts are taken not to
\* contain it.
\* length of "FILE CONTENTS (top 40 most important files):\n" and the rule under it
FcHeaderLen == 124
\* length of "FILE CONTENTS (reduced due to token limit):\n" and the rule under it
FcReducedHeaderLen == 123
\* length of the literal "FILE CONTENTS"
FcLiteralLen == 13
\* length of "\n\n[CONTEXT TRUNCATED TO FIT TOKEN LIMIT]"
ContextMarkerLen == 40

RECURSIVE PromptLen(_)
\* len(context)
PromptLen(p) == IF p = <<>> THEN 0 ELSE Head(p).len + PromptLen(Tail(p))

RECURSIVE TakeChars(_, _)
\* context[:n]
TakeChars(p, n) ==
  IF p = <<>> \/ n <= 0 THEN <<>>
  ELSE IF Head(p).len <= n THEN <<Head(p)>> \o TakeChars(Tail(p), n - Head(p).len)
  ELSE <<[name |-> Head(p).name, len |-> n]>>

\* the f-string of analyze_repo_with_chat: everything up to the FILE CONTENTS
\* heading, the heading, the file-contents section, README and requirements
AssembleContext(repo, section) ==
  << [name |-> "head", len |-> repo.head_len],
     [name |-> "fc_header", len |-> FcHeaderLen],
     [name |-> "fc_body", len |-> section.len],
     [name |-> "tail", len |-> repo.tail_len] >>

\* the sanity check on the assembled context
CapContext(context) ==
  IF PromptLen(context) > MAX_CONTEXT_CHARS
  THEN TakeChars(context, MAX_CONTEXT_CHARS) \o <<[name |-> "ctx_truncated", len |-> ContextMarkerLen]>>
  ELSE context

\* whether a section holds the literal "FILE CONTENTS"
HoldsFcLiteral(sec) ==
  sec.name \in {"fc_header", "fc_reduced_header"} /\ sec.len >= FcLiteralLen

RECURSIVE BeforeFcLiteral(_)
\* context.split("FILE CONTENTS")[0]
BeforeFcLiteral(p) ==
  IF p = <<>> THEN <<>>
  ELSE IF HoldsFcLiteral(Head(p)) THEN <<>>
  ELSE <<Head(p)>> \o BeforeFcLiteral(Tail(p))

\* mutant: the rebuild keeps the original heading
ReducedContextSameHeading(context, file_contents) ==
  BeforeFcLiteral(context)
  \o << [name |-> "fc_header", len |-> FcHeaderLen],
        [name |-> "fc_body",
         len |-> build_trimmed_file_contents(file_contents, REDUCED_MAX_CHARS,
                                             REDUCED_MAX_FILES).len] >>

\* the degraded rebuild of the except branch
ReducedContext(context, file_contents) ==
  LET reduced_contents ==
        build_trimmed_file_contents(file_contents, REDUCED_MAX_CHARS, REDUCED_MAX_FILES)
  IN BeforeFcLiteral(context)
     \o << [name |-> "fc_reduced_header", len |-> FcReducedHeaderLen],
           [name |-> "fc_body", len |-> reduced_contents.len] >>

\* whether a system prompt contains "reduced due to token limit"
MentionsReduced(p) == \E i \in 1..Len(p) : p[i].name = "fc_reduced_header"

\* --------------------------------------------------- OrchestrationLoop

max_retries == 3
\* answer_text[:1000] of the corrective retries
REPLY_CHARS == 1000
\* chat_history[-6:] and content[:2000]
HISTORY_TURNS == 6
HISTORY_CHARS == 2000
\* syntax_errors[:3]
SHOWN_ERRORS == 3

VARIABLES
  repo_data,     \* the repository description passed by the caller
  question,      \* the question passed by the caller
  chat_history,  \* the caller's list of earlier turns
  pc,            \* position in analyze_repo_with_chat, or in a function call
  context,       \* the system prompt built before the loop
  messages,      \* the message list handed to llm.invoke
  attempt,       \* the attempt counter
  answer,        \* the local `answer`
  response,      \* response.content of the invocation being processed
  err,           \* str(e) of the failure being handled
  sent,          \* history: the message list each invocation was given
  history,       \* history: what the LLM did at each invocation
  results,       \* history: the records returned to the caller
  exit_path,     \* history: the return statement that produced the record
  rebuilds,      \* history: how many times the degraded rebuild was performed
  arg,           \* function specifications: the arguments
  ret            \* function specifications: the value returned

vars == <<repo_data, question, chat_history, pc, context, messages, attempt,
          answer, response, err, sent, history, results, exit_path, rebuilds,
          arg, ret>>

loop_vars == <<repo_data, question, chat_history, context, messages, attempt,
               answer, response, err, sent, history, results, exit_path, rebuilds>>

\* len(components['all_files']) and max(15, file_count // 2)
MinNodesPrompt(repo) ==
  IF repo.all_files \div 2 > 15 THEN repo.all_files \div 2 ELSE 15

SystemMessage(c) == [role |-> "system", content |-> c]
HumanMessage(c) == [role |-> "user", content |-> c]
AIMessage(c) == [role |-> "assistant", content |-> c]

\* mutant: turns of any other role are passed on as system messages
RECURSIVE HistoryMessagesAllRoles(_)
HistoryMessagesAllRoles(turns) ==
  IF turns = <<>> THEN <<>>
  ELSE LET msg == Head(turns)
       IN (IF msg.role = "user" THEN <<HumanMessage(msg.content)>>
           ELSE IF msg.role = "assistant" THEN <<AIMessage(Take(msg.content, HISTORY_CHARS))>>
           ELSE <<SystemMessage(msg.content)>>)
          \o HistoryMessagesAllRoles(Tail(turns))

\* the loop over chat_history[-6:]
RECURSIVE HistoryMessages(_)
HistoryMessages(turns) ==
  IF turns = <<>> THEN <<>>
  ELSE LET msg == Head(turns)
       IN (IF msg.role = "user" THEN <<HumanMessage(msg.content)>>
           ELSE IF msg.role = "assistant" THEN <<AIMessage(Take(msg.content, HISTORY_CHARS))>>
           ELSE <<>>)
          \o HistoryMessages(Tail(turns))

\* chat_history[-6:]
LastTurns(turns) ==
  IF Len(turns) <= HISTORY_TURNS THEN turns
  ELSE SubSeq(turns, Len(turns) - HISTORY_TURNS + 1, Len(turns))

\* mutant: a retry is allowed on the last attempt too
CanRetryAlways(a) == a < max_retries

\* mutant: a retry is allowed on the first attempt only
CanRetryFirstOnly(a) == a < max_retries - 2

\* the retry conditions `attempt < max_retries - 1`
CanRetry(a) == a < max_retries - 1

\* mutant: a retry that does not count the attempt
NextAttemptStuck(a) == a

\* mutant: a retry that counts the attempt twice
NextAttemptTwice(a) == a + 2

\* attempt += 1
NextAttempt(a) == a + 1

\* mutant: the loop stops one attempt early
LoopConditionShort(a) == a < max_retries - 1

\* the while condition
LoopCondition(a) == a < max_retries

\* the test of the except branch for a context-length error
IsOverflow(e) ==
  \/ Contains(e, <<"c","o","n","t","e","x","t","_","l","e","n","g","t","h","_","e","x","c","e","e","d","e","d">>)
  \/ Contains(e, <<"m","a","x","i","m","u","m"," ","c","o","n","t","e","x","t"," ","l","e","n","g","t","h">>)

generate_follow_up_questions(ans, has_diagram, diagram_type) ==
  IF has_diagram
  THEN << "Add more implementation details to the diagram",
          "Show error handling and edge cases",
          "Include deployment and infrastructure" >>
  ELSE << "Create a comprehensive architecture diagram",
          "Show complete data flow with all components",
          "Generate detailed sequence diagram" >>

\* mutant: has_diagram follows the truth value of mermaid_code
AcceptedResultTruthy(ans, mermaid_code, diagram_type, repo) ==
  [answer |-> ans,
   mermaid_code |-> mermaid_code,
   diagram_type |-> diagram_type,
   has_diagram |-> (mermaid_code # None /\ mermaid_code[1] # <<>>),
   follow_up_questions |-> generate_follow_up_questions(ans, mermaid_code # None, diagram_type),
   repo_name |-> repo.name]

\* the record returned from the try block
AcceptedResult(ans, mermaid_code, diagram_type, repo) ==
  [answer |-> ans,
   mermaid_code |-> mermaid_code,
   diagram_type |-> diagram_type,
   has_diagram |-> mermaid_code # None,
   follow_up_questions |-> generate_follow_up_questions(ans, mermaid_code # None, diagram_type),
   repo_name |-> repo.name]

ErrorPrefix ==
  <<"E","r","r","o","r"," ","g","e","n","e","r","a","t","i","n","g"," ","r","e","s","p","o","n","s","e",":"," ">>

\* the record returned from the except block
ErrorResult(e, repo) ==
  [answer |-> ErrorPrefix \o e,
   mermaid_code |-> None,
   diagram_type |-> None,
   has_diagram |-> FALSE,
   follow_up_questions |-> <<>>,
   repo_name |-> repo.name]

UnableText ==
  <<"U","n","a","b","l","e"," ","t","o"," ","g","e","n","e","r","a","t","e"," ","r","e","s","p","o","n","s","e">>

\* the record returned after the loop
FallThroughResult(ans, repo) ==
  [answer |-> IF ans # <<>> THEN ans ELSE UnableText,
   mermaid_code |-> None,
   diagram_type |-> None,
   has_diagram |-> FALSE,
   follow_up_questions |-> <<>>,
   repo_name |-> repo.name]

\* `if mermaid_code:` -- a present, non-empty diagram
Truthy(mermaid_code) == mermaid_code # None /\ mermaid_code[1] # <<>>

\* the branch the try block takes once the diagram is repaired and validated
Decide(parsed, code, syntax, complete, a) ==
  IF ~syntax.valid /\ CanRetry(a)
  THEN [branch |-> "syntax_retry", answer |-> parsed.answer,
        mermaid_code |-> Some(code), diagram_type |-> parsed.diagram_type,
        notes |-> Take(syntax.errors, SHOWN_ERRORS)]
  ELSE IF ~complete.valid /\ CanRetry(a)
  THEN [branch |-> "completeness_retry", answer |-> parsed.answer,
        mermaid_code |-> Some(code), diagram_type |-> parsed.diagram_type,
        notes |-> complete.issues]
  ELSE [branch |-> "return", answer |-> parsed.answer,
        mermaid_code |-> Some(code), diagram_type |-> parsed.diagram_type,
        notes |-> <<>>]

\* the two validations of the repaired diagram
Validate(parsed, code, repo, a) ==
  Decide(parsed, code, validate_mermaid_syntax(code),
         validate_diagram_completeness(code, Len(repo.file_contents)), a)

\* the try block after the parse: `if mermaid_code:` repairs and validates
TryParsed(parsed, repo, a) ==
  IF ~Truthy(parsed.mermaid_code)
  THEN [branch |-> "return", answer |-> parsed.answer,
        mermaid_code |-> parsed.mermaid_code, diagram_type |-> parsed.diagram_type,
        notes |-> <<>>]
  ELSE Validate(parsed, fix_mermaid_syntax(parsed.mermaid_code[1]), repo, a)

\* What the try block computes from response.content: the parse, the second
\* repair, the two validations and the branch taken.
TryOutcome(answer_text, repo, a) ==
  TryParsed(extract_diagram_from_response(answer_text), repo, a)

\* ---------------------------------------------------------------- inputs

RECURSIVE Rep(_, _)
\* n copies of a line, one per line
Rep(line, n) == IF n = 0 THEN <<>> ELSE line \o <<NL>> \o Rep(line, n - 1)

NodeLine == <<"a","[","b","]">>
OpenNodeLine == <<"a","[","b">>
SpacedNodeLine == <<"A"," ","B"," ","C","[","l","]">>
SubgraphLine == <<"s","u","b","g","r","a","p","h"," ","s">>
FlowHeader == <<"f","l","o","w","c","h","a","r","t"," ","T","D">>
ClassHeader == <<"c","l","a","s","s","D","i","a","g","r","a","m">>

\* number of node lines of the dense and of the sparse test diagrams
DenseNodes == 16
SparseNodes == 3

\* a reply: the answer text, then the delimited diagram body
Reply(text, body) ==
  text \o <<NL>> \o DIAGRAM_START \o <<NL>> \o body \o DIAGRAM_END

\* what the LLM may do at one invocation: return a text or raise an error
Outcomes ==
  [ valid_flow |->
      [kind |-> "response",
       text |-> Reply(<<"F","l","o","w">>,
                      FlowHeader \o <<NL>> \o SubgraphLine \o <<NL>>
                      \o Rep(NodeLine, DenseNodes) \o KwEnd \o <<NL>>)],
    valid_class |->
      [kind |-> "response",
       text |-> Reply(<<"C","l","a","s","s">>,
                      ClassHeader \o <<NL>> \o SubgraphLine \o <<NL>>
                      \o Rep(NodeLine, DenseNodes) \o KwEnd \o <<NL>>)],
    spaced |->
      [kind |-> "response",
       text |-> Reply(<<"S","p","a","c","e","d">>,
                      FlowHeader \o <<NL>> \o SubgraphLine \o <<NL>>
                      \o SpacedNodeLine \o <<NL>>
                      \o Rep(NodeLine, DenseNodes) \o KwEnd \o <<NL>>)],
    flat |->
      [kind |-> "response",
       text |-> Reply(<<"F","l","a","t">>,
                      FlowHeader \o <<NL>> \o Rep(NodeLine, DenseNodes))],
    unbalanced |->
      [kind |-> "response",
       text |-> Reply(<<"O","p","e","n">>,
                      FlowHeader \o <<NL>> \o SubgraphLine \o <<NL>>
                      \o Rep(NodeLine, DenseNodes) \o OpenNodeLine \o <<NL>>
                      \o KwEnd \o <<NL>>)],
    unbalanced_sparse |->
      [kind |-> "response",
       text |-> Reply(<<"B","a","d">>,
                      FlowHeader \o <<NL>> \o OpenNodeLine \o <<NL>>)],
    sparse |->
      [kind |-> "response",
       text |-> Reply(<<"T","h","i","n">>,
                      FlowHeader \o <<NL>> \o SubgraphLine \o <<NL>>
                      \o Rep(NodeLine, SparseNodes) \o KwEnd \o <<NL>>)],
    no_diagram |->
      [kind |-> "response", text |-> <<"N","o","n","e">>],
    empty_block |->
      [kind |-> "response",
       text |-> <<"E","m","p","t","y">> \o DIAGRAM_START \o <<NL>> \o DIAGRAM_END],
    reversed |->
      [kind |-> "response",
       text |-> <<"R","e","v">> \o DIAGRAM_END \o NodeLine \o DIAGRAM_START],
    overflow |->
      [kind |-> "error",
       text |-> <<"4","0","0"," ","c","o","n","t","e","x","t","_","l","e","n","g","t","h","_","e","x","c","e","e","d","e","d">>],
    overflow_text |->
      [kind |-> "error",
       text |-> <<"m","a","x","i","m","u","m"," ","c","o","n","t","e","x","t"," ","l","e","n","g","t","h"," ","i","s"," ","8","k">>],
    timeout |->
      [kind |-> "error", text |-> <<"t","i","m","e","o","u","t">>] ]

OutcomeNames == DOMAIN Outcomes

\* file_contents entries: the purpose tag and the length of the rendered file
Files(n, size) ==
  [i \in 1..n |-> [purpose |-> IF i % 3 = 0 THEN "api" ELSE "other", size |-> size]]

\* the repositories analysed: a small one, one in the middle tier of the
\* completeness validator, one whose files overflow both file-content budgets,
\* and one whose file tree alone overflows the prompt
Repos ==
  { [name |-> "small", file_contents |-> Files(5, 400), all_files |-> 5,
     head_len |-> 2000, tail_len |-> 1500],
    [name |-> "medium", file_contents |-> Files(20, 400), all_files |-> 24,
     head_len |-> 3000, tail_len |-> 1500],
    [name |-> "large", file_contents |-> Files(12, 30000), all_files |-> 12,
     head_len |-> 9000, tail_len |-> 5600],
    [name |-> "deep", file_contents |-> Files(3, 400), all_files |-> 70,
     head_len |-> 500000, tail_len |-> 1500] }

Question == <<"S","h","o","w">>

ChatHistories ==
  { <<>>,
    << [role |-> "user", content |-> <<"q","1">>],
       [role |-> "assistant", content |-> <<"r","1">>],
       [role |-> "system", content |-> <<"s">>],
       [role |-> "user", content |-> <<"q","2">>],
       [role |-> "assistant", content |-> <<"r","2">>],
       [role |-> "user", content |-> <<"q","3">>],
       [role |-> "assistant", content |-> <<"r","3">>] >> }

\* ------------------------------------------------- analyze_repo_with_chat

NoCall == [fn |-> "none"]

Init ==
  /\ repo_data \in Repos
  /\ question = Question
  /\ chat_history \in ChatHistories
  /\ pc = "start"
  /\ context = <<>>
  /\ messages = <<>>
  /\ attempt = 0
  /\ answer = <<>>
  /\ response = <<>>
  /\ err = <<>>
  /\ sent = <<>>
  /\ history = <<>>
  /\ results = <<>>
  /\ exit_path = "none"
  /\ rebuilds = 0
  /\ arg = NoCall
  /\ ret = None

\* everything before the loop: the system prompt and the message list
Build ==
  /\ pc = "start"
  /\ LET section == build_trimmed_file_contents(repo_data.file_contents,
                       MAX_FILE_CONTENTS_CHARS, MAX_FILES_IN_PROMPT)
         ctx == CapContext(AssembleContext(repo_data, section))
     IN /\ context' = ctx
        /\ messages' = <<SystemMessage(ctx)>>
                       \o HistoryMessages(LastTurns(chat_history))
                       \o <<HumanMessage(question)>>
  /\ attempt' = 0
  /\ answer' = <<>>
  /\ pc' = "loop"
  /\ UNCHANGED <<repo_data, question, chat_history, response, err, sent, history,
                 results, exit_path, rebuilds, arg, ret>>

\* the while test, and the return after the loop when it fails
WhileTest ==
  /\ pc = "loop"
  /\ IF LoopCondition(attempt)
     THEN /\ pc' = "invoke"
          /\ UNCHANGED <<results, exit_path>>
     ELSE /\ results' = Append(results, FallThroughResult(answer, repo_data))
          /\ exit_path' = "fall_through"
          /\ pc' = "done"
  /\ UNCHANGED <<repo_data, question, chat_history, context, messages, attempt,
                 answer, response, err, sent, history, rebuilds, arg, ret>>

\* llm.invoke(messages): the model answers or the call raises
Invoke ==
  /\ pc = "invoke"
  /\ \E o \in OutcomeNames :
       /\ history' = Append(history, o)
       /\ IF Outcomes[o].kind = "response"
          THEN /\ response' = Outcomes[o].text
               /\ pc' = "try"
               /\ UNCHANGED err
          ELSE /\ err' = Outcomes[o].text
               /\ pc' = "except"
               /\ UNCHANGED response
  /\ sent' = Append(sent, messages)
  /\ UNCHANGED <<repo_data, question, chat_history, context, messages, attempt,
                 answer, results, exit_path, rebuilds, arg, ret>>

\* the end of the try block: return the record, or append the corrective
\* messages and count the attempt
FinishTry(o) ==
  /\ answer' = o.answer
  /\ IF o.branch = "return"
     THEN /\ results' = Append(results,
                AcceptedResult(o.answer, o.mermaid_code, o.diagram_type, repo_data))
          /\ exit_path' = "accepted"
          /\ pc' = "done"
          /\ UNCHANGED <<messages, attempt>>
     ELSE /\ messages' = messages
                \o << AIMessage(Take(response, REPLY_CHARS)),
                      HumanMessage([kind |-> o.branch, notes |-> o.notes,
                                    min_nodes |-> MinNodesPrompt(repo_data)]) >>
          /\ attempt' = NextAttempt(attempt)
          /\ pc' = "loop"
          /\ UNCHANGED <<results, exit_path>>

\* the rest of the try block
ProcessResponse ==
  /\ pc = "try"
  /\ \E o \in {TryOutcome(response, repo_data, attempt)} : FinishTry(o)
  /\ UNCHANGED <<repo_data, question, chat_history, context, response, err, sent,
                 history, rebuilds, arg, ret>>

\* the except block
HandleException ==
  /\ pc = "except"
  /\ IF IsOverflow(err) /\ CanRetry(attempt)
     THEN /\ messages' = [messages EXCEPT ![1] =
                 SystemMessage(ReducedContext(context, repo_data.file_contents))]
          /\ rebuilds' = rebuilds + 1
          /\ attempt' = NextAttempt(attempt)
          /\ pc' = "loop"
          /\ UNCHANGED <<results, exit_path>>
     ELSE IF CanRetry(attempt)
     THEN /\ attempt' = NextAttempt(attempt)
          /\ pc' = "loop"
          /\ UNCHANGED <<messages, results, exit_path, rebuilds>>
     ELSE /\ results' = Append(results, ErrorResult(err, repo_data))
          /\ exit_path' = "error"
          /\ pc' = "done"
          /\ UNCHANGED <<messages, attempt, rebuilds>>
  /\ UNCHANGED <<repo_data, question, chat_history, context, answer, response, err,
                 sent, history, arg, ret>>

Next == Build \/ WhileTest \/ Invoke \/ ProcessResponse \/ HandleException

Spec == Init /\ [][Next]_vars

\* the number of llm.invoke calls made so far
invocations == Len(history)

\* ------------------------------------------------ function specifications
\* One call of a single function: Init draws the arguments, the action applies
\* the function.  The variables of the loop stay at their initial values.

LoopIdle ==
  /\ repo_data = [name |-> "none", file_contents |-> <<>>, all_files |-> 0,
                  head_len |-> 0, tail_len |-> 0]
  /\ question = <<>>
  /\ chat_history = <<>>
  /\ context = <<>>
  /\ messages = <<>>
  /\ attempt = 0
  /\ answer = <<>>
  /\ response = <<>>
  /\ err = <<>>
  /\ sent = <<>>
  /\ history = <<>>
  /\ results = <<>>
  /\ exit_path = "none"
  /\ rebuilds = 0

RECURSIVE Concat(_)
Concat(parts) == IF parts = <<>> THEN <<>> ELSE Head(parts) \o Concat(Tail(parts))

\* every sequence of at most n elements of S
SeqsUpTo(S, n) == UNION {[1..k -> S] : k \in 0..n}

\* --- extract_diagram_from_response

MaxSegments == 3

ParseSegments ==
  { DIAGRAM_START, DIAGRAM_END, <<"t">>, <<" ">>,
    <<"g","r","a","p","h",NL,"a","[","b","]",NL>> }

ParseInit ==
  /\ LoopIdle
  /\ pc = "call"
  /\ \E parts \in SeqsUpTo(ParseSegments, MaxSegments) :
       arg = [fn |-> "extract_diagram_from_response", text |-> Concat(parts)]
  /\ ret = None

ParseCall ==
  /\ pc = "call"
  /\ arg.fn = "extract_diagram_from_response"
  /\ ret' = Some(extract_diagram_from_response(arg.text))
  /\ pc' = "returned"
  /\ UNCHANGED <<loop_vars, arg>>

ParseNext == ParseCall

ParseSpec == ParseInit /\ [][ParseNext]_vars

\* --- build_trimmed_file_contents

MaxFiles == 4
MaxFilesArg == 3
\* rendered length of each file, and a max_chars two files exceed
UnitSize == 1
TightChars == 2

BudgetPurposes == {"api", "configuration", "other"}

BudgetInit ==
  /\ LoopIdle
  /\ pc = "call"
  /\ \E purposes \in SeqsUpTo(BudgetPurposes, MaxFiles) :
     \E max_files \in 1..MaxFilesArg :
     \E max_chars \in {TightChars, MAX_FILE_CONTENTS_CHARS} :
       arg = [fn |-> "build_trimmed_file_contents",
              file_contents |-> [i \in 1..Len(purposes) |->
                                   [purpose |-> purposes[i], size |-> UnitSize]],
              max_chars |-> max_chars,
              max_files |-> max_files]
  /\ ret = None

BudgetCall ==
  /\ pc = "call"
  /\ arg.fn = "build_trimmed_file_contents"
  /\ ret' = Some(build_trimmed_file_contents(arg.file_contents, arg.max_chars, arg.max_files))
  /\ pc' = "returned"
  /\ UNCHANGED <<loop_vars, arg>>

BudgetNext == BudgetCall

BudgetSpec == BudgetInit /\ [][BudgetNext]_vars

\* --- fix_mermaid_syntax

MaxTokens == 4

FixTokens ==
  { <<"A">>, <<"A"," ">>, <<"[","l","]">>, <<";",";">>,
    <<"-","-","-","-","-",">">>, <<NL>> }

FixInit ==
  /\ LoopIdle
  /\ pc = "call"
  /\ \E parts \in SeqsUpTo(FixTokens, MaxTokens) :
       arg = [fn |-> "fix_mermaid_syntax", text |-> Concat(parts)]
  /\ ret = None

FixCall ==
  /\ pc = "call"
  /\ arg.fn = "fix_mermaid_syntax"
  /\ ret' = Some(fix_mermaid_syntax(arg.text))
  /\ pc' = "returned"
  /\ UNCHANGED <<loop_vars, arg>>

FixNext == FixCall

FixSpec == FixInit /\ [][FixNext]_vars

\* --- validate_diagram_completeness

\* node-line counts and file counts on both sides of every tier boundary
CompleteNodeCounts == {0, 3, 14, 15, 24, 25, 34, 35, 40}
CompleteFileCounts == {5, 10, 11, 19, 20, 49, 50, 60}

UpperSubgraphLine == <<"S","u","b","G","r","a","p","h"," ","s">>
CommentedNodeLine == <<" ","%","%"," ","a","[","b","]">>

\* lines that may precede the node lines: grouping keywords in either case,
\* a commented-out node, a line with an opening bracket only
CompleteLeads ==
  { <<>>, SubgraphLine \o <<NL>>, UpperSubgraphLine \o <<NL>>,
    CommentedNodeLine \o <<NL>>, OpenNodeLine \o <<NL>>,
    SubgraphLine \o <<NL>> \o CommentedNodeLine \o <<NL>> }

CompleteInit ==
  /\ LoopIdle
  /\ pc = "call"
  /\ \E n \in CompleteNodeCounts :
     \E lead \in CompleteLeads :
     \E fc \in CompleteFileCounts :
       arg = [fn |-> "validate_diagram_completeness",
              mermaid_code |-> FlowHeader \o <<NL>> \o lead \o Rep(NodeLine, n),
              file_count |-> fc]
  /\ ret = None

CompleteCall ==
  /\ pc = "call"
  /\ arg.fn = "validate_diagram_completeness"
  /\ ret' = Some(validate_diagram_completeness(arg.mermaid_code, arg.file_count))
  /\ pc' = "returned"
  /\ UNCHANGED <<loop_vars, arg>>

CompleteNext == CompleteCall

CompleteSpec == CompleteInit /\ [][CompleteNext]_vars

\* ------------------------------------------------------------------ claims

\* vocabulary: what one LLM outcome carries, judged with the program's own
\* parser, repairer and validators
IsResponse(o) == Outcomes[o].kind = "response"
IsOverflowFailure(o) == Outcomes[o].kind = "error" /\ IsOverflow(Outcomes[o].text)
ParsedOf(o) == extract_diagram_from_response(Outcomes[o].text)
CarriesDiagram(o) == IsResponse(o) /\ ParsedOf(o).mermaid_code # None
RepairedOf(o) == fix_mermaid_syntax(ParsedOf(o).mermaid_code[1])
PassesBoth(o, repo) ==
  /\ CarriesDiagram(o)
  /\ validate_mermaid_syntax(RepairedOf(o)).valid
  /\ validate_diagram_completeness(RepairedOf(o), Len(repo.file_contents)).valid
FailsValidation(o, repo) == CarriesDiagram(o) /\ ~PassesBoth(o, repo)
Returned == pc = "done"
\* the current iteration has finished with the last outcome
Settled == pc \in {"loop", "invoke", "done"} /\ history # <<>>
LastOutcome == history[Len(history)]

\* steps left before the return, at most: three per remaining attempt
StepsLeft ==
  CASE pc = "start" -> 3 * max_retries + 4
    [] pc = "loop" -> 3 * (max_retries - attempt) + 3
    [] pc = "invoke" -> 3 * (max_retries - attempt) + 2
    [] pc \in {"try", "except"} -> 3 * (max_retries - attempt) + 1
    [] OTHER -> 0

\* the positions at which an action is enabled: each action is guarded by pc
\* alone and covers every case under its guard
Running == pc \in {"start", "loop", "invoke", "try", "except"}

\* C1: whatever the model does at each invocation, one call terminates (until
\* it has returned it is at a position with a step to take, and every step
\* brings the return nearer), makes at most 3 LLM invocations, and hands back
\* exactly one result record (none before it returns).
C1_BoundedTermination ==
  /\ [](invocations <= max_retries)
  /\ [](Len(results) = IF Returned THEN 1 ELSE 0)
  /\ [](Returned \/ Running)
  /\ [](StepsLeft >= 0)
  /\ [][StepsLeft' < StepsLeft]_vars

C1_Witness == Returned /\ invocations = max_retries /\ Len(results) = 1

\* C2: the attempt counter only moves by one, and only at the end of an
\* iteration that has made its invocation; the number of invocations made is
\* the attempt counter between iterations and one more inside an iteration
\* (including the iteration that returns).
C2_AttemptCountsInvocations ==
  /\ [](invocations = attempt + (IF pc \in {"try", "except", "done"} THEN 1 ELSE 0))
  /\ [][attempt' # attempt =>
          pc \in {"try", "except"} /\ attempt' = attempt + 1 /\ invocations = attempt + 1]_vars

C2_Witness ==
  /\ pc = "loop" /\ attempt = 2 /\ invocations = 2
  /\ IsOverflowFailure(history[1]) /\ IsResponse(history[2])

C4_AlwaysOverflow ==
  (\A i \in 1..Len(history) : IsOverflowFailure(history[i]))
  => /\ \A i \in 2..Len(sent) :
          sent[i][1].role = "system" /\ MentionsReduced(sent[i][1].content)
     /\ Returned =>
          /\ invocations = 3
          /\ ~results[1].has_diagram
          /\ results[1].mermaid_code = None
          /\ Contains(results[1].answer, Outcomes[LastOutcome].text)

C4_Witness ==
  /\ Returned /\ invocations = 3
  /\ \A i \in 1..Len(history) : IsOverflowFailure(history[i])

\* C5: in every returned record has_diagram is true exactly when mermaid_code
\* is present, which on the accepted path is exactly when the parser extracted
\* a diagram block from the response being processed, and never on the error
\* and fall-through paths.
C5_HasDiagramIffCode ==
  \A i \in 1..Len(results) :
    /\ results[i].has_diagram = (results[i].mermaid_code # None)
    /\ exit_path = "accepted" =>
         results[i].has_diagram = (extract_diagram_from_response(response).mermaid_code # None)
    /\ exit_path \in {"error", "fall_through"} => ~results[i].has_diagram

C5_Witness ==
  /\ Returned /\ exit_path = "accepted"
  /\ results[1].has_diagram /\ results[1].mermaid_code = Some(<<>>)

\* C6 (as claimed): every returned record carries exactly 3 follow-up questions.
C6_Claim == \A i \in 1..Len(results) : Len(results[i].follow_up_questions) = 3

\* C7 (as claimed): extract_diagram_from_response yields a diagram only when
\* both markers are present with the start marker before the end marker; in
\* every other case the answer is the whole trimmed text and there is neither
\* a diagram nor a diagram type.
MarkersInOrder(text) ==
  /\ Contains(text, DIAGRAM_START)
  /\ Contains(text, DIAGRAM_END)
  /\ Find(text, DIAGRAM_START) < Find(text, DIAGRAM_END)

C7_Claim ==
  (pc = "returned" /\ arg.fn = "extract_diagram_from_response")
  => IF MarkersInOrder(Strip(arg.text))
     THEN TRUE
     ELSE /\ ret[1].answer = Strip(arg.text)
          /\ ret[1].mermaid_code = None
          /\ ret[1].diagram_type = None

\* C8: build_trimmed_file_contents shows at most max_files entries, each
\* once; a non-priority entry is shown only when every priority entry is;
\* priority entries come first; each group keeps the encounter order.
IsPriority(entry) == entry.purpose \in priority_purposes

C8_PriorityFirst ==
  (pc = "returned" /\ arg.fn = "build_trimmed_file_contents")
  => LET fc == arg.file_contents
         sel == ret[1].selected
     IN /\ Len(sel) <= arg.max_files
        /\ \A i \in 1..Len(sel) : sel[i] \in 1..Len(fc)
        /\ \A i, j \in 1..Len(sel) : i < j =>
             /\ sel[i] # sel[j]
             /\ IsPriority(fc[sel[j]]) => IsPriority(fc[sel[i]])
             /\ IsPriority(fc[sel[i]]) = IsPriority(fc[sel[j]]) => sel[i] < sel[j]
        /\ (\E i \in 1..Len(sel) : ~IsPriority(fc[sel[i]]))
             => \A k \in 1..Len(fc) :
                  IsPriority(fc[k]) => \E i \in 1..Len(sel) : sel[i] = k

C8_Witness ==
  /\ pc = "returned" /\ arg.fn = "build_trimmed_file_contents"
  /\ Len(arg.file_contents) > arg.max_files
  /\ Len(ret[1].selected) = arg.max_files
  /\ IsPriority(arg.file_contents[ret[1].selected[1]])
  /\ ~IsPriority(arg.file_contents[ret[1].selected[Len(ret[1].selected)]])
  /\ ~IsPriority(arg.file_contents[1])

\* C9 (as claimed): the file-contents section is never longer than its
\* max_chars (300,000, or 80,000 in the degraded rebuild) and no system prompt
\* built or sent is longer than MAX_CONTEXT_CHARS.
SectionLen(p, name) ==
  LET at == {i \in 1..Len(p) : p[i].name = name}
  IN IF at = {} THEN 0 ELSE p[CHOOSE i \in at : TRUE].len

C9_Claim ==
  \A i \in 1..Len(messages) :
    messages[i].role = "system" =>
      /\ PromptLen(messages[i].content) <= MAX_CONTEXT_CHARS
      /\ SectionLen(messages[i].content, "fc_body")
           <= IF MentionsReduced(messages[i].content)
              THEN REDUCED_MAX_CHARS ELSE MAX_FILE_CONTENTS_CHARS

\* C10 (as claimed): repairing a repaired diagram changes nothing.
C10_Claim ==
  (pc = "returned" /\ arg.fn = "fix_mermaid_syntax")
  => fix_mermaid_syntax(ret[1]) = ret[1]

\* C11: validate_diagram_completeness returns valid exactly when the diagram
\* has at least the tier threshold of node lines (lines holding both brackets
\* that are not comments; 15 below 20 files, 25 below 50, else 35) and is
\* organised (holds "subgraph" in any case, or the repository has at most 10
\* files); it reports "too simple" exactly when the first condition fails and
\* "missing organization" exactly when the second fails.
RECURSIVE NodeLinesIn(_)
NodeLinesIn(lines) ==
  IF lines = <<>> THEN 0
  ELSE (IF Count(Head(lines), "[") > 0 /\ Count(Head(lines), "]") > 0
           /\ Take(Strip(Head(lines)), 2) # KwComment
        THEN 1 ELSE 0) + NodeLinesIn(Tail(lines))

TierThreshold(file_count) ==
  CASE file_count < 20 -> 15
    [] file_count >= 20 /\ file_count < 50 -> 25
    [] OTHER -> 35

Organised(mermaid_code, file_count) ==
  Contains(Lower(mermaid_code), KwSubgraph) \/ file_count <= 10

Reports(issue) == \E i \in 1..Len(ret[1].issues) : ret[1].issues[i] = issue

C11_CompletenessTiers ==
  (pc = "returned" /\ arg.fn = "validate_diagram_completeness")
  => LET enough == NodeLinesIn(Split(arg.mermaid_code)) >= TierThreshold(arg.file_count)
         organised == Organised(arg.mermaid_code, arg.file_count)
     IN /\ ret[1].valid = (enough /\ organised)
        /\ Reports("too_simple") = ~enough
        /\ Reports("missing_organization") = ~organised
        /\ Len(ret[1].issues) = (IF enough THEN 0 ELSE 1) + (IF organised THEN 0 ELSE 1)

\* a 40-node diagram with a subgraph is valid for a repository of 60 files
C11_Witness ==
  /\ pc = "returned" /\ arg.fn = "validate_diagram_completeness"
  /\ arg.file_count = 60
  /\ NodeLinesIn(Split(arg.mermaid_code)) = 40
  /\ ret[1].valid

\* vocabulary of the retry claims: the verdicts of the two validators on the
\* repaired diagram of an outcome, and the tail of the message list
FailsSyntax(o) == CarriesDiagram(o) /\ ~validate_mermaid_syntax(RepairedOf(o)).valid
FailsCompleteness(o, repo) ==
  CarriesDiagram(o)
  /\ ~validate_diagram_completeness(RepairedOf(o), Len(repo.file_contents)).valid
LastTwo(msgs) == SubSeq(msgs, Len(msgs) - 1, Len(msgs))
SyntaxCorrection(o, repo) ==
  << AIMessage(Take(Outcomes[o].text, REPLY_CHARS)),
     HumanMessage([kind |-> "syntax_retry",
                   notes |-> Take(validate_mermaid_syntax(RepairedOf(o)).errors, SHOWN_ERRORS),
                   min_nodes |-> MinNodesPrompt(repo)]) >>
CompletenessCorrection(o, repo) ==
  << AIMessage(Take(Outcomes[o].text, REPLY_CHARS)),
     HumanMessage([kind |-> "completeness_retry",
                   notes |-> validate_diagram_completeness(RepairedOf(o),
                                                           Len(repo.file_contents)).issues,
                   min_nodes |-> MinNodesPrompt(repo)]) >>

\* C12 (as claimed): on attempts 1 and 2 a response whose repaired diagram
\* fails syntax validation ends the attempt without a result and with the
\* syntax correction appended (the reply cut to 1000 characters, then a user
\* message listing at most 3 syntax errors), also when the diagram is
\* incomplete; a diagram that is syntactically valid but incomplete ends the
\* attempt without a result and with the completeness correction appended.
C12_Claim ==
  (Settled /\ Len(history) < max_retries /\ CarriesDiagram(LastOutcome))
  => /\ FailsSyntax(LastOutcome)
          => ~Returned /\ LastTwo(messages) = SyntaxCorrection(LastOutcome, repo_data)
     /\ (~FailsSyntax(LastOutcome) /\ FailsCompleteness(LastOutcome, repo_data))
          => ~Returned /\ LastTwo(messages) = CompletenessCorrection(LastOutcome, repo_data)

\* C13: when the third invocation returns a response whose diagram fails
\* syntax or completeness validation, the call returns from the try block the
\* repaired diagram with has_diagram true and the detected diagram type, the
\* parsed answer and the follow-up questions of a diagram; the record has no
\* other field, and no further invocation is made.
ResultFields ==
  {"answer", "mermaid_code", "diagram_type", "has_diagram", "follow_up_questions",
   "repo_name"}

C13_LastAttemptAccepted ==
  (Settled /\ Len(history) = max_retries /\ FailsValidation(LastOutcome, repo_data))
  => /\ Returned
     /\ exit_path = "accepted"
     /\ Len(results) = 1
     /\ DOMAIN results[1] = ResultFields
     /\ results[1].has_diagram
     /\ results[1].mermaid_code = Some(RepairedOf(LastOutcome))
     /\ results[1].diagram_type = ParsedOf(LastOutcome).diagram_type
     /\ results[1].answer = ParsedOf(LastOutcome).answer
     /\ results[1].follow_up_questions
          = generate_follow_up_questions(results[1].answer, TRUE, results[1].diagram_type)
     /\ invocations = max_retries

\* the third response carries a diagram with an unbalanced bracket and too
\* few nodes, after two corrective retries
C13_Witness ==
  /\ Returned /\ invocations = max_retries
  /\ FailsSyntax(LastOutcome) /\ FailsCompleteness(LastOutcome, repo_data)
  /\ ParsedOf(LastOutcome).mermaid_code[1] # <<>>
  /\ IsResponse(history[1]) /\ IsResponse(history[2])
  /\ results[1].has_diagram

\* C14 (as claimed): the degraded rebuild of the system message is performed
\* at most once per run, and an overflow failure met after a rebuild is handled
\* as any other failure is: the attempt is counted and nothing is rebuilt.
C14_Claim ==
  /\ [](rebuilds <= 1)
  /\ [][(pc = "except" /\ rebuilds >= 1) => rebuilds' = rebuilds]_vars

\* C15 (as claimed): whatever happens to the system message during the
\* retries, every section of the prompt built before the loop other than the
\* file contents (the repository metadata, file structure and components
\* before them; the README and the diagram requirements after them) is still
\* in the system message, unchanged.
KeptSections == {"head", "tail"}

HasSection(p, sec) == \E j \in 1..Len(p) : p[j] = sec

C15_Claim ==
  messages # <<>>
  => \A i \in 1..Len(context) :
       context[i].name \in KeptSections => HasSection(messages[1].content, context[i])

\* C16: an invocation that fails on attempt 1 or 2, with an overflow or any
\* other error, produces no result and the loop goes on to invoke the model
\* again; an invocation that fails on attempt 3 produces the error record
\* (the answer is the error prefix and that error's text, has_diagram false,
\* no mermaid_code), whatever the earlier attempts returned.
IsFailure(o) == Outcomes[o].kind = "error"

C16_FailureHandling ==
  /\ []((Settled /\ IsFailure(LastOutcome))
         => IF Len(history) < max_retries
            THEN /\ ~Returned
                 /\ results = <<>>
                 /\ attempt = Len(history)
                 /\ LoopCondition(attempt)
            ELSE /\ Returned
                 /\ exit_path = "error"
                 /\ Len(results) = 1
                 /\ results[1].answer = ErrorPrefix \o Outcomes[LastOutcome].text
                 /\ ~results[1].has_diagram
                 /\ results[1].mermaid_code = None
                 /\ results[1].diagram_type = None)
  /\ [][(pc = "except" /\ Len(history) < max_retries)
          => (pc' = "loop" /\ results' = results)]_vars
  /\ [][(pc = "loop" /\ history # <<>> /\ IsFailure(LastOutcome)) => pc' = "invoke"]_vars
  /\ [][pc = "invoke" => Len(history') = Len(history) + 1]_vars

\* two corrective retries, then a failure that is not an overflow
C16_Witness ==
  /\ Returned /\ exit_path = "error" /\ invocations = max_retries
  /\ IsResponse(history[1]) /\ IsResponse(history[2])
  /\ IsFailure(LastOutcome) /\ ~IsOverflowFailure(LastOutcome)
  /\ answer # <<>>

\* C17: the while condition holds every time it is tested, so every run
\* returns from inside the loop (from the try block or the except block) and
\* the record built after the loop, with the answer "Unable to generate
\* response" or the answer of an earlier attempt, is never returned.
C17_NoFallThrough ==
  /\ attempt <= max_retries - 1
  /\ pc = "loop" => LoopCondition(attempt)
  /\ exit_path # "fall_through"
  /\ Returned =>
       /\ exit_path \in {"accepted", "error"}
       /\ results[1] # FallThroughResult(answer, repo_data)
       /\ results[1].answer # UnableText

\* the while test is passed for the last time after two counted attempts, one
\* of which left an answer behind
C17_Witness ==
  /\ pc = "invoke" /\ attempt = max_retries - 1 /\ invocations = max_retries - 1
  /\ answer # <<>>
  /\ IsFailure(LastOutcome)

\* C18 (as claimed): a record with has_diagram true returned on attempt 1 or 2
\* carries a non-empty diagram that passes validate_mermaid_syntax and
\* validate_diagram_completeness.
C18_Claim ==
  (Returned /\ invocations < max_retries /\ results[1].has_diagram)
  => /\ results[1].mermaid_code # None
     /\ results[1].mermaid_code[1] # <<>>
     /\ validate_mermaid_syntax(results[1].mermaid_code[1]).valid
     /\ validate_diagram_completeness(results[1].mermaid_code[1],
                                       Len(repo_data.file_contents)).valid

\* C19 (as claimed): the minimum node count stated to the model, in the
\* prompt and in the completeness correction (max(15, file_count // 2) over
\* the leaves of file_structure), is never lower than the threshold
\* validate_diagram_completeness applies (tiered over the number of
\* file_contents entries), so a diagram answered with "too simple" always has
\* fewer node lines than the minimum stated in that correction.
StatesTooSimple(msg) ==
  /\ msg.role = "user"
  /\ DOMAIN msg.content = {"kind", "notes", "min_nodes"}
  /\ msg.content.kind = "completeness_retry"
  /\ \E i \in 1..Len(msg.content.notes) : msg.content.notes[i] = "too_simple"

C19_Claim ==
  /\ context # <<>>
       => MinNodesPrompt(repo_data) >= MinNodesFor(Len(repo_data.file_contents))
  /\ (Settled /\ ~Returned /\ IsResponse(LastOutcome)
       /\ StatesTooSimple(messages[Len(messages)]))
       => NodeCount(RepairedOf(LastOutcome)) < messages[Len(messages)].content.min_nodes

\* C20: a syntax or completeness retry appends an assistant message and a
\* user message and changes nothing else of the message list; a retry after a
\* failure that is not an overflow leaves the list as it is; a retry after an
\* overflow changes only the message at position 0; no other step after the
\* list is built changes it.  So every invocation is given a list with one
\* system message, in front, whose length is the initial length plus two per
\* validation retry so far; the caller's chat_history is never modified.
ValidationRetriesBefore(i) == Cardinality({j \in 1..(i - 1) : IsResponse(history[j])})

C20_MessageFrame ==
  /\ [][(pc = "try" /\ pc' = "loop")
          => /\ Len(messages') = Len(messages) + 2
             /\ SubSeq(messages', 1, Len(messages)) = messages
             /\ messages'[Len(messages) + 1].role = "assistant"
             /\ messages'[Len(messages) + 2].role = "user"]_vars
  /\ [][(pc = "try" /\ pc' # "loop") => messages' = messages]_vars
  /\ [][(pc = "except" /\ ~IsOverflow(err)) => messages' = messages]_vars
  /\ [][(pc = "except" /\ IsOverflow(err))
          => /\ Len(messages') = Len(messages)
             /\ (\A i \in 2..Len(messages) : messages'[i] = messages[i])]_vars
  /\ [][(pc \in {"loop", "invoke"}) => (messages' = messages)]_vars
  /\ [][chat_history' = chat_history]_vars
  /\ [](\A i \in 1..Len(sent) :
          /\ sent[i][1].role = "system"
          /\ \A j \in 2..Len(sent[i]) : sent[i][j].role # "system"
          /\ Len(sent[i]) = Len(sent[1]) + 2 * ValidationRetriesBefore(i))

\* the third invocation after an overflow retry and a validation retry, for a
\* caller whose history holds a turn that is neither user nor assistant
C20_Witness ==
  /\ Len(sent) = max_retries
  /\ IsOverflowFailure(history[1]) /\ IsResponse(history[2])
  /\ sent[3][1] # sent[1][1]
  /\ Len(sent[3]) = Len(sent[1]) + 2
  /\ \E k \in 1..Len(chat_history) : chat_history[k].role = "system"

====
